---- MODULE Spec2Model ----
(***************************************************************************)
(* Model of pansens (src/main.py): conversion of a mouse sensitivity       *)
(* between the Windows tick scale and the KDE/libinput acceleration scale  *)
(* through the neutral multiplier.                                         *)
(*                                                                         *)
(* Python floats are modelled as fixed-point integers counting 1/Scale.    *)
(* Every float the model handles is a multiple of 1/64 of magnitude below  *)
(* 2^10, so the IEEE-754 double operations of the source (+, -, abs, the   *)
(* comparisons) are exact on them and the integer arithmetic below agrees  *)
(* with the float arithmetic of the source.                                *)
(***************************************************************************)
EXTENDS Integers, Sequences, FiniteSets

\* One float unit is 1/Scale: 1/64 is half the finest step of _tick_map
\* (1/32), so every midpoint between two neighbouring table entries is
\* representable.
Scale == 64

\* ---- bounds of the explored inputs -------------------------------------
\* constructor arguments WindowsSensitivity(t): t in -MaxTickArg..MaxTickArg
MaxTickArg == 22
\* constructor arguments KDESensitivity(v): v in [-MaxKdeArg, MaxKdeArg]
MaxKdeArg == 2
\* multipliers handed to from_intermediate directly: [-MaxMul, MaxMul]
MaxMul == 4
\* number of convert_sensitivity calls chained in one session
MaxHops == 2
\* command-line value of main: [-MaxCliValue, MaxCliValue]
MaxCliValue == 22

TickArgs == (0 - MaxTickArg)..MaxTickArg
KdeArgs == (0 - MaxKdeArg * Scale)..(MaxKdeArg * Scale)
Multipliers == (0 - MaxMul * Scale)..(MaxMul * Scale)
\* the command-line values explored are the multiples of 1/8
CliStep == Scale \div 8
CliValues == { k * CliStep : k \in (0 - 8 * MaxCliValue)..(8 * MaxCliValue) }
PlatformNames == {"windows", "kde"}
CliPlatformArgs == {"windows", "kde", "macos"}

\* ---- Python values ------------------------------------------------------
None == [cls |-> "NoneType"]

Return(v) == [exc |-> "None", val |-> v]
Raise(e) == [exc |-> e, val |-> None]

abs(x) == IF x < 0 THEN 0 - x ELSE x
max(a, b) == IF b > a THEN b ELSE a
min(a, b) == IF b < a THEN b ELSE a

\* rounding to the nearest integer instead of truncating
py_int_round(x) == IF x >= 0 THEN (2 * x + Scale) \div (2 * Scale)
                   ELSE 0 - ((2 * (0 - x) + Scale) \div (2 * Scale))
\* int(float): truncation toward zero
py_int(x) == IF x >= 0 THEN x \div Scale ELSE 0 - ((0 - x) \div Scale)

IntermediateSensitivity(multiplier) ==
    [cls |-> "IntermediateSensitivity", multiplier |-> multiplier]

\* ---- Windows ------------------------------------------------------------
WindowsSensitivity_off_by_one(tick) ==
    IF ~(1 <= tick /\ tick < 20)
    THEN Raise("ValueError")
    ELSE Return([cls |-> "WindowsSensitivity", tick |-> tick])
WindowsSensitivity(tick) ==
    IF ~(1 <= tick /\ tick <= 20)
    THEN Raise("ValueError")
    ELSE Return([cls |-> "WindowsSensitivity", tick |-> tick])

\* tick 11 typed as 1.0 instead of 1.25
tick_map_dup ==
    << Scale \div 32, Scale \div 16, Scale \div 8, (2 * Scale) \div 8,
       (3 * Scale) \div 8, (4 * Scale) \div 8, (5 * Scale) \div 8,
       (6 * Scale) \div 8, (7 * Scale) \div 8, Scale,
       Scale, (150 * Scale) \div 100,
       (175 * Scale) \div 100, 2 * Scale, (225 * Scale) \div 100,
       (250 * Scale) \div 100, (275 * Scale) \div 100, 3 * Scale,
       (325 * Scale) \div 100, (350 * Scale) \div 100 >>
\* ticks 11 and 12 exchanged
tick_map_swapped ==
    << Scale \div 32, Scale \div 16, Scale \div 8, (2 * Scale) \div 8,
       (3 * Scale) \div 8, (4 * Scale) \div 8, (5 * Scale) \div 8,
       (6 * Scale) \div 8, (7 * Scale) \div 8, Scale,
       (150 * Scale) \div 100, (125 * Scale) \div 100,
       (175 * Scale) \div 100, 2 * Scale, (225 * Scale) \div 100,
       (250 * Scale) \div 100, (275 * Scale) \div 100, 3 * Scale,
       (325 * Scale) \div 100, (350 * Scale) \div 100 >>
\* _tick_map, in insertion order (tick 1 first); entry t is the multiplier
tick_map ==
    << Scale \div 32, Scale \div 16, Scale \div 8, (2 * Scale) \div 8,
       (3 * Scale) \div 8, (4 * Scale) \div 8, (5 * Scale) \div 8,
       (6 * Scale) \div 8, (7 * Scale) \div 8, Scale,
       (125 * Scale) \div 100, (150 * Scale) \div 100,
       (175 * Scale) \div 100, 2 * Scale, (225 * Scale) \div 100,
       (250 * Scale) \div 100, (275 * Scale) \div 100, 3 * Scale,
       (325 * Scale) \div 100, (350 * Scale) \div 100 >>

\* _tick_map.items(): the (tick, multiplier) pairs in iteration order
tick_map_items == [t \in 1..Len(tick_map) |-> <<t, tick_map[t]>>]

\* the key of min: lambda kv: abs(kv[1] - sensitivity.multiplier)
closest_key(kv, sensitivity) == abs(kv[2] - sensitivity.multiplier)

\* Python's min(iterable, key=...): one pass in iteration order, the held
\* item replaced only by an item whose key is strictly smaller.
RECURSIVE min_scan_last(_, _, _)
min_scan_last(best, i, sensitivity) ==
    IF i > Len(tick_map_items) THEN best
    ELSE min_scan_last(
             IF closest_key(tick_map_items[i], sensitivity)
                    <= closest_key(best, sensitivity)
             THEN tick_map_items[i] ELSE best,
             i + 1, sensitivity)
RECURSIVE min_scan(_, _, _)
min_scan(best, i, sensitivity) ==
    IF i > Len(tick_map_items) THEN best
    ELSE min_scan(
             IF closest_key(tick_map_items[i], sensitivity)
                    < closest_key(best, sensitivity)
             THEN tick_map_items[i] ELSE best,
             i + 1, sensitivity)

WindowsPlatform_to_intermediate(sensitivity) ==
    IF sensitivity.cls # "WindowsSensitivity"
    THEN Raise("TypeError")
    ELSE Return(IntermediateSensitivity(tick_map[sensitivity.tick]))

\* ties go to the entry met last
WindowsPlatform_from_intermediate_last(sensitivity) ==
    LET closest == min_scan_last(tick_map_items[1], 2, sensitivity)
    IN  WindowsSensitivity(closest[1])
WindowsPlatform_from_intermediate(sensitivity) ==
    LET closest == min_scan(tick_map_items[1], 2, sensitivity)
    IN  WindowsSensitivity(closest[1])

\* ---- KDE ----------------------------------------------------------------
KDESensitivity(value) ==
    IF ~((0 - Scale) <= value /\ value <= Scale)
    THEN Raise("ValueError")
    ELSE Return([cls |-> "KDESensitivity", value |-> value])

\* no isinstance guard: the native field of whatever was passed is used
KDEPlatform_to_intermediate_unchecked(sensitivity) ==
    IF sensitivity.cls # "KDESensitivity"
    THEN Return(IntermediateSensitivity(Scale + sensitivity.tick * Scale))
    ELSE Return(IntermediateSensitivity(Scale + sensitivity.value))
\* the sign of the offset slipped: 1.0 - value
KDEPlatform_to_intermediate_neg(sensitivity) ==
    IF sensitivity.cls # "KDESensitivity"
    THEN Raise("TypeError")
    ELSE Return(IntermediateSensitivity(Scale - sensitivity.value))
KDEPlatform_to_intermediate(sensitivity) ==
    IF sensitivity.cls # "KDESensitivity"
    THEN Raise("TypeError")
    ELSE LET multiplier == Scale + sensitivity.value
         IN  Return(IntermediateSensitivity(multiplier))

\* the clamp left out
KDEPlatform_from_intermediate_noclamp(sensitivity) ==
    KDESensitivity(sensitivity.multiplier - Scale)
\* the clamp taken over the multiplier's range [0, 1] instead of [-1, 1]
KDEPlatform_from_intermediate_clamp01(sensitivity) ==
    LET val == sensitivity.multiplier - Scale
    IN  KDESensitivity(max(0, min(Scale, val)))
KDEPlatform_from_intermediate(sensitivity) ==
    LET val == sensitivity.multiplier - Scale
        clamped == max(0 - Scale, min(Scale, val))
    IN  KDESensitivity(clamped)

\* ---- dispatch on the platform object ------------------------------------
to_intermediate(platform, sensitivity) ==
    IF platform = "windows"
    THEN WindowsPlatform_to_intermediate(sensitivity)
    ELSE KDEPlatform_to_intermediate(sensitivity)

from_intermediate(platform, sensitivity) ==
    IF platform = "windows"
    THEN WindowsPlatform_from_intermediate(sensitivity)
    ELSE KDEPlatform_from_intermediate(sensitivity)

\* convert_sensitivity as a function of its arguments; an exception of the
\* first call leaves the function before the second call is made
convert_sensitivity(from_p, to_p, sensitivity) ==
    LET intermediate_r == to_intermediate(from_p, sensitivity)
    IN  IF intermediate_r.exc # "None" THEN intermediate_r
        ELSE from_intermediate(to_p, intermediate_r.val)

\* ---- state --------------------------------------------------------------
VARIABLES
    pc,             \* position of the running program
    driver,         \* "none" | "api" (a caller of the library) | "main" (the CLI)
    args,           \* main: the parsed command line (args), None before
    ctor,           \* the constructor call that made the source value
    sensitivity,    \* the value handed to convert_sensitivity
    from_platform,  \* convert_sensitivity's from_platform
    to_platform,    \* convert_sensitivity's to_platform
    intermediate,   \* convert_sensitivity's local `intermediate`
    converted,      \* the value convert_sensitivity / from_intermediate returned
    exc,            \* the exception in flight, "None" when there is none
    calls,          \* the callables invoked so far, in order
    hops,           \* the completed convert_sensitivity calls of the session
    stdout          \* the lines printed

vars == << pc, driver, args, ctor, sensitivity, from_platform, to_platform,
           intermediate, converted, exc, calls, hops, stdout >>

NoCtor == [name |-> "None", arg |-> 0]

Init ==
    /\ pc = "start"
    /\ driver = "none"
    /\ args = None
    /\ ctor = NoCtor
    /\ sensitivity = None
    /\ from_platform = "None"
    /\ to_platform = "None"
    /\ intermediate = None
    /\ converted = None
    /\ exc = "None"
    /\ calls = << >>
    /\ hops = << >>
    /\ stdout = << >>

\* ---- a caller of the library --------------------------------------------
\* sensitivity = WindowsSensitivity(tick)
ApiNewWindowsSensitivity ==
    \E tick \in TickArgs :
        LET r == WindowsSensitivity(tick) IN
        /\ pc = "start"
        /\ driver' = "api"
        /\ ctor' = [name |-> "WindowsSensitivity", arg |-> tick]
        /\ calls' = Append(calls, "WindowsSensitivity")
        /\ sensitivity' = r.val
        /\ exc' = r.exc
        /\ pc' = IF r.exc = "None" THEN "constructed" ELSE "ctor_raised"
        /\ UNCHANGED << args, from_platform, to_platform, intermediate,
                        converted, hops, stdout >>

\* sensitivity = KDESensitivity(value)
ApiNewKDESensitivity ==
    \E value \in KdeArgs :
        LET r == KDESensitivity(value) IN
        /\ pc = "start"
        /\ driver' = "api"
        /\ ctor' = [name |-> "KDESensitivity", arg |-> value]
        /\ calls' = Append(calls, "KDESensitivity")
        /\ sensitivity' = r.val
        /\ exc' = r.exc
        /\ pc' = IF r.exc = "None" THEN "constructed" ELSE "ctor_raised"
        /\ UNCHANGED << args, from_platform, to_platform, intermediate,
                        converted, hops, stdout >>

\* platform.from_intermediate(IntermediateSensitivity(multiplier)), called
\* on an adapter directly
ApiFromIntermediate ==
    \E platform \in PlatformNames, multiplier \in Multipliers :
        LET i == IntermediateSensitivity(multiplier)
            r == from_intermediate(platform, i) IN
        /\ pc = "start"
        /\ driver' = "api"
        /\ to_platform' = platform
        /\ intermediate' = i
        /\ calls' = Append(calls, "from_intermediate")
        /\ converted' = r.val
        /\ exc' = r.exc
        /\ pc' = IF r.exc = "None" THEN "adapter_returned" ELSE "adapter_raised"
        /\ UNCHANGED << args, ctor, sensitivity, from_platform, hops, stdout >>

\* convert_sensitivity(from_p, to_p, sensitivity) is entered
ApiConvert ==
    \E from_p \in PlatformNames, to_p \in PlatformNames :
        /\ pc = "constructed"
        /\ driver = "api"
        /\ from_platform' = from_p
        /\ to_platform' = to_p
        /\ calls' = Append(calls, "convert_sensitivity")
        /\ pc' = "line124"
        /\ UNCHANGED << driver, args, ctor, sensitivity, intermediate,
                        converted, exc, hops, stdout >>

\* the value a conversion returned is converted again
ApiChain ==
    \E from_p \in PlatformNames, to_p \in PlatformNames :
        /\ pc = "returned"
        /\ driver = "api"
        /\ Len(hops) < MaxHops
        /\ sensitivity' = converted
        /\ intermediate' = None
        /\ converted' = None
        /\ from_platform' = from_p
        /\ to_platform' = to_p
        /\ calls' = Append(calls, "convert_sensitivity")
        /\ pc' = "line124"
        /\ UNCHANGED << driver, args, ctor, exc, hops, stdout >>

\* ---- convert_sensitivity, statement by statement ------------------------
\* intermediate = from_platform.to_intermediate(sensitivity)
Line124 ==
    LET r == to_intermediate(from_platform, sensitivity) IN
    /\ pc = "line124"
    /\ calls' = Append(calls, "to_intermediate")
    /\ intermediate' = r.val
    /\ exc' = r.exc
    /\ pc' = IF r.exc = "None" THEN "line125" ELSE "convert_raised"
    /\ UNCHANGED << driver, args, ctor, sensitivity, from_platform,
                    to_platform, converted, hops, stdout >>

\* return to_platform.from_intermediate(intermediate)
Line125_wrong_adapter ==
    LET r == from_intermediate(from_platform, intermediate) IN
    /\ pc = "line125"
    /\ calls' = Append(calls, "from_intermediate")
    /\ converted' = r.val
    /\ exc' = r.exc
    /\ pc' = IF r.exc = "None" THEN "returned" ELSE "convert_raised"
    /\ hops' = IF r.exc = "None"
               THEN Append(hops, [from |-> from_platform, to |-> to_platform,
                                  arg |-> sensitivity, ret |-> r.val])
               ELSE hops
    /\ UNCHANGED << driver, args, ctor, sensitivity, from_platform,
                    to_platform, intermediate, stdout >>
Line125 ==
    LET r == from_intermediate(to_platform, intermediate) IN
    /\ pc = "line125"
    /\ calls' = Append(calls, "from_intermediate")
    /\ converted' = r.val
    /\ exc' = r.exc
    /\ pc' = IF r.exc = "None" THEN "returned" ELSE "convert_raised"
    /\ hops' = IF r.exc = "None"
               THEN Append(hops, [from |-> from_platform, to |-> to_platform,
                                  arg |-> sensitivity, ret |-> r.val])
               ELSE hops
    /\ UNCHANGED << driver, args, ctor, sensitivity, from_platform,
                    to_platform, intermediate, stdout >>

\* ---- main ---------------------------------------------------------------
\* args = parser.parse_args(): a platform outside the choices ends the run
\* with argparse's usage error
MainParseArgs ==
    \E f \in CliPlatformArgs, t \in CliPlatformArgs, value \in CliValues :
        /\ pc = "start"
        /\ driver' = "main"
        /\ calls' = Append(calls, "parse_args")
        /\ IF f \in PlatformNames /\ t \in PlatformNames
           THEN /\ args' = [from_platform |-> f, to_platform |-> t,
                            value |-> value]
                /\ pc' = "parsed"
           ELSE /\ args' = None
                /\ pc' = "usage_error"
        /\ UNCHANGED << ctor, sensitivity, from_platform, to_platform,
                        intermediate, converted, exc, hops, stdout >>

\* from_platform = ..., to_platform = ..., sensitivity = <constructor>(...)
MainConstruct ==
    LET arg == IF args.from_platform = "windows"
               THEN py_int(args.value) ELSE args.value
        r == IF args.from_platform = "windows"
             THEN WindowsSensitivity(arg) ELSE KDESensitivity(arg) IN
    /\ pc = "parsed"
    /\ from_platform' = args.from_platform
    /\ to_platform' = args.to_platform
    /\ ctor' = [name |-> IF args.from_platform = "windows"
                         THEN "WindowsSensitivity" ELSE "KDESensitivity",
                arg |-> arg]
    /\ calls' = Append(calls, ctor'.name)
    /\ sensitivity' = r.val
    /\ exc' = r.exc
    /\ pc' = IF r.exc = "None" THEN "line151" ELSE "ctor_raised"
    /\ UNCHANGED << driver, args, intermediate, converted, hops, stdout >>

\* converted = convert_sensitivity(from_platform, to_platform, sensitivity)
MainConvert ==
    /\ pc = "line151"
    /\ calls' = Append(calls, "convert_sensitivity")
    /\ pc' = "line124"
    /\ UNCHANGED << driver, args, ctor, sensitivity, from_platform,
                    to_platform, intermediate, converted, exc, hops, stdout >>

\* print(f"Converted sensitivity: {converted}"); __repr__ gives the class
\* name, the field name and the field value
repr(obj) ==
    IF obj.cls = "WindowsSensitivity"
    THEN [name |-> "WindowsSensitivity", field |-> "tick", value |-> obj.tick]
    ELSE [name |-> "KDESensitivity", field |-> "value", value |-> obj.value]

MainPrint ==
    /\ pc = "returned"
    /\ driver = "main"
    /\ stdout' = Append(stdout, [prefix |-> "Converted sensitivity: ",
                                 repr |-> repr(converted)])
    /\ calls' = Append(calls, "print")
    /\ pc' = "exit0"
    /\ UNCHANGED << driver, args, ctor, sensitivity, from_platform,
                    to_platform, intermediate, converted, exc, hops >>

Next ==
    \/ ApiNewWindowsSensitivity
    \/ ApiNewKDESensitivity
    \/ ApiFromIntermediate
    \/ ApiConvert
    \/ ApiChain
    \/ Line124
    \/ Line125
    \/ MainParseArgs
    \/ MainConstruct
    \/ MainConvert
    \/ MainPrint

Spec == Init /\ [][Next]_vars

\* ---- vocabulary of the properties ---------------------------------------
Range(seq) == { seq[k] : k \in 1..Len(seq) }
ValidTicks == 1..20
ValidKdeValues == (0 - Scale)..Scale
IsHop(h, from_p, to_p) == h.from = from_p /\ h.to = to_p
\* the class of native value a platform's adapter owns
OwnedClass(platform) ==
    IF platform = "windows" THEN "WindowsSensitivity" ELSE "KDESensitivity"
\* convert_sensitivity has been entered with a value the source adapter
\* does not own
Mismatch ==
    /\ from_platform \in PlatformNames
    /\ sensitivity # None
    /\ sensitivity.cls # OwnedClass(from_platform)
PastLine124 == pc \in {"line125", "returned", "convert_raised", "exit0"}
\* the value the session's constructor call produced
SourceValue == IF hops # << >> THEN hops[1].arg ELSE sensitivity

\* C1: a windows -> windows conversion of WindowsSensitivity(t) returns a
\* WindowsSensitivity whose tick is t, for every t in 1..20.
C1_WindowsRoundTrip ==
    \A k \in 1..Len(hops) :
        IsHop(hops[k], "windows", "windows")
            => /\ hops[k].ret.cls = "WindowsSensitivity"
               /\ hops[k].ret.tick = hops[k].arg.tick

C1_Witness ==
    /\ pc = "returned"
    /\ Len(hops) = 1
    /\ IsHop(hops[1], "windows", "windows")
    /\ hops[1].arg.tick = 11
    /\ hops[1].ret.tick = 11

\* C2: whenever WindowsPlatform.from_intermediate has returned for a
\* multiplier m, the tick t it returned minimises |_tick_map[t] - m| over the
\* 20 ticks, and every tick as close to m as t is not below t (the lower
\* tick wins a tie).
C2_NearestLowestTick ==
    (/\ pc \in {"adapter_returned", "returned", "exit0"}
     /\ to_platform = "windows")
        => /\ converted.cls = "WindowsSensitivity"
           /\ converted.tick \in ValidTicks
           /\ \A u \in ValidTicks :
                LET m == intermediate.multiplier
                    dt == abs(tick_map[converted.tick] - m)
                    du == abs(tick_map[u] - m)
                IN  /\ dt <= du
                    /\ (dt = du => converted.tick <= u)

\* m = 1.125 lies midway between tick 10 (1.0) and tick 11 (1.25)
C2_Witness ==
    /\ pc = "adapter_returned"
    /\ to_platform = "windows"
    /\ intermediate.multiplier = (1125 * Scale) \div 1000
    /\ converted.tick = 10

\* C3: a constructor call raises ValueError exactly when its argument is
\* outside the native range (1..20 for WindowsSensitivity, [-1.0, 1.0] for
\* KDESensitivity), and otherwise yields a value whose field is the argument.
C3_ConstructionValidates ==
    ctor # NoCtor =>
        LET inRange == IF ctor.name = "WindowsSensitivity"
                       THEN 1 <= ctor.arg /\ ctor.arg <= 20
                       ELSE (0 - Scale) <= ctor.arg /\ ctor.arg <= Scale
        IN  /\ (~inRange) <=> (pc = "ctor_raised")
            /\ pc = "ctor_raised" => exc = "ValueError" /\ sensitivity = None
            /\ pc # "ctor_raised" =>
                 /\ SourceValue.cls = ctor.name
                 /\ IF ctor.name = "WindowsSensitivity"
                    THEN SourceValue.tick = ctor.arg
                    ELSE SourceValue.value = ctor.arg

C3_Witness ==
    /\ driver = "api"
    /\ ctor = [name |-> "WindowsSensitivity", arg |-> 21]
    /\ pc = "ctor_raised"
    /\ exc = "ValueError"

\* C4: once convert_sensitivity has run its first statement on a value the
\* source adapter does not own, the call has ended with the adapter's
\* TypeError: there is no intermediate, no returned value, no hop is
\* recorded for the call and from_intermediate was not invoked after
\* to_intermediate.
C4_TypeMismatchPropagates ==
    (PastLine124 /\ Mismatch)
        => /\ pc = "convert_raised"
           /\ exc = "TypeError"
           /\ intermediate = None
           /\ converted = None
           /\ calls[Len(calls)] = "to_intermediate"
           /\ \A k \in 1..Len(hops) : hops[k].arg # sensitivity
                                         \/ hops[k].from # from_platform

C4_Witness ==
    /\ pc = "convert_raised"
    /\ from_platform = "windows"
    /\ sensitivity = [cls |-> "KDESensitivity", value |-> 0]
    /\ exc = "TypeError"

\* C5: from_intermediate never fails: for every multiplier m the KDE adapter
\* returns clamp(m - 1.0, -1.0, 1.0), the Windows adapter a tick in 1..20;
\* a ValueError arises only in a constructor call of the caller, and
\* convert_sensitivity fails only on a value its source adapter does not own.
C5_NoValidationErrorAtConversion ==
    /\ pc # "adapter_raised"
    /\ pc = "adapter_returned" =>
         /\ exc = "None"
         /\ LET m == intermediate.multiplier IN
            IF to_platform = "kde"
            THEN /\ converted.cls = "KDESensitivity"
                 /\ converted.value \in ValidKdeValues
                 /\ converted.value =
                        (IF m - Scale < 0 - Scale THEN 0 - Scale
                         ELSE IF m - Scale > Scale THEN Scale
                         ELSE m - Scale)
            ELSE /\ converted.cls = "WindowsSensitivity"
                 /\ converted.tick \in ValidTicks
    /\ pc = "convert_raised" => Mismatch /\ exc = "TypeError"
    /\ exc = "ValueError" => pc = "ctor_raised"

\* m = 3.0 is above the KDE multiplier range [0, 2]
C5_Witness ==
    /\ pc = "adapter_returned"
    /\ to_platform = "kde"
    /\ intermediate.multiplier = 3 * Scale
    /\ converted.value = Scale

\* C6: a kde -> kde conversion of KDESensitivity(v) returns a KDESensitivity
\* whose value is v, for every v of the grid in [-1.0, 1.0].
C6_KdeRoundTrip ==
    \A k \in 1..Len(hops) :
        IsHop(hops[k], "kde", "kde")
            => /\ hops[k].ret.cls = "KDESensitivity"
               /\ hops[k].ret.value = hops[k].arg.value

C6_Witness ==
    /\ pc = "returned"
    /\ Len(hops) = 1
    /\ IsHop(hops[1], "kde", "kde")
    /\ hops[1].arg.value = 0 - Scale
    /\ hops[1].ret.value = 0 - Scale

\* C7: every completed convert_sensitivity(source, destination, value)
\* returned destination.from_intermediate(source.to_intermediate(value));
\* windows -> kde takes tick 12 to 0.5 and tick 10 to 0.0, kde -> windows
\* takes 1.0 to tick 14 and -1.0 to tick 1.
C7_ConvertComposes ==
    \A k \in 1..Len(hops) :
        LET h == hops[k] IN
        /\ to_intermediate(h.from, h.arg).exc = "None"
        /\ h.ret = from_intermediate(h.to, to_intermediate(h.from, h.arg).val).val
        /\ h.ret.cls = OwnedClass(h.to)
        /\ (IsHop(h, "windows", "kde") /\ h.arg.tick = 12)
               => h.ret.value = Scale \div 2
        /\ (IsHop(h, "windows", "kde") /\ h.arg.tick = 10) => h.ret.value = 0
        /\ (IsHop(h, "kde", "windows") /\ h.arg.value = Scale)
               => h.ret.tick = 14
        /\ (IsHop(h, "kde", "windows") /\ h.arg.value = 0 - Scale)
               => h.ret.tick = 1

C7_Witness ==
    /\ pc = "returned"
    /\ Len(hops) = 1
    /\ IsHop(hops[1], "windows", "kde")
    /\ hops[1].arg.tick = 12
    /\ hops[1].ret = [cls |-> "KDESensitivity", value |-> Scale \div 2]

\* the command-line value is inside the source platform's range: int(value)
\* in 1..20 is 1.0 <= value < 21.0
CliInRange ==
    IF args.from_platform = "windows"
    THEN Scale <= args.value /\ args.value < 21 * Scale
    ELSE (0 - Scale) <= args.value /\ args.value <= Scale

\* C8: in a run of main, a line is printed only after the source value was
\* constructed and convert_sensitivity returned, and it shows the returned
\* value; with a value outside the source platform's range the run ends in
\* the constructor's ValueError, convert_sensitivity is never invoked and
\* nothing is printed.
C8_PrintOnlyAfterConversion ==
    /\ stdout # << >> =>
         /\ driver = "main"
         /\ pc = "exit0"
         /\ Len(stdout) = 1
         /\ sensitivity # None
         /\ converted # None
         /\ exc = "None"
         /\ stdout[1] = [prefix |-> "Converted sensitivity: ",
                         repr |-> repr(converted)]
         /\ calls = << "parse_args", ctor.name, "convert_sensitivity",
                       "to_intermediate", "from_intermediate", "print" >>
    /\ (driver = "main" /\ args # None /\ ~CliInRange) =>
         /\ stdout = << >>
         /\ pc \in {"parsed", "ctor_raised"}
         /\ pc = "ctor_raised" => exc = "ValueError"
         /\ "convert_sensitivity" \notin Range(calls)
         /\ "print" \notin Range(calls)

\* main windows kde 0.5: int(0.5) = 0 is no tick
C8_Witness ==
    /\ driver = "main"
    /\ args = [from_platform |-> "windows", to_platform |-> "kde",
               value |-> Scale \div 2]
    /\ pc = "ctor_raised"
    /\ stdout = << >>

\* C9 as claimed: windows -> kde followed by kde -> windows returns the tick
\* it started from, for every tick in 1..20.
C9_CrossRoundTripExact ==
    \A k \in 1..(Len(hops) - 1) :
        (IsHop(hops[k], "windows", "kde") /\ IsHop(hops[k + 1], "kde", "windows"))
            => hops[k + 1].ret.tick = hops[k].arg.tick

\* C9 as amended: windows -> kde followed by kde -> windows returns the tick
\* it started from for the ticks 1..14; for the ticks 15..20, whose
\* multiplier exceeds 2.0, it returns tick 14.
C9_CrossRoundTripClamped ==
    \A k \in 1..(Len(hops) - 1) :
        (IsHop(hops[k], "windows", "kde") /\ IsHop(hops[k + 1], "kde", "windows"))
            => /\ hops[k + 1].arg = hops[k].ret
               /\ hops[k + 1].ret.tick =
                    (IF hops[k].arg.tick <= 14 THEN hops[k].arg.tick ELSE 14)

C9_Witness ==
    /\ pc = "returned"
    /\ Len(hops) = 2
    /\ IsHop(hops[1], "windows", "kde")
    /\ IsHop(hops[2], "kde", "windows")
    /\ hops[1].arg.tick = 13
    /\ hops[2].ret.tick = 13

\* C10: conversion is monotone: when windows -> kde has taken tick t1 to v1,
\* every valid tick t2 >= t1 is taken to a value >= v1; when kde -> windows
\* has taken v1 to tick t1, every valid v2 >= v1 is taken to a tick >= t1.
C10_Monotone ==
    (pc = "returned" /\ hops # << >>) =>
        LET h == hops[Len(hops)] IN
        /\ IsHop(h, "windows", "kde") =>
             \A t2 \in ValidTicks :
                 h.arg.tick <= t2 =>
                     h.ret.value <=
                         convert_sensitivity("windows", "kde",
                             WindowsSensitivity(t2).val).val.value
        /\ IsHop(h, "kde", "windows") =>
             \A v2 \in ValidKdeValues :
                 h.arg.value <= v2 =>
                     h.ret.tick <=
                         convert_sensitivity("kde", "windows",
                             KDESensitivity(v2).val).val.tick

\* 0.125 -> multiplier 1.125, the tie between ticks 10 and 11
C10_Witness ==
    /\ pc = "returned"
    /\ Len(hops) = 1
    /\ IsHop(hops[1], "kde", "windows")
    /\ hops[1].arg.value = Scale \div 8
    /\ hops[1].ret.tick = 10

====
